---- MODULE Spec2Model ----
(***************************************************************************)
(* Funnel analysis pipeline of funnel_analyzer.py (StandardFunnelAnalyzer) *)
(* and unified_loans_activities_funnel_analyzer.py                         *)
(* (UnifiedLoansFunnelAnalyzer).                                           *)
(*                                                                         *)
(* The specifications share the variables below.                           *)
(*   SpecFilter  check_event_availability applied to a caller's config     *)
(*   SpecRefilter       the same, called repeatedly on one config          *)
(*   SpecFunnel  generate_standard_funnel_sql and the evaluation of the    *)
(*               generated statement on a source table                     *)
(*   SpecScan           the same, over rows that may fail the filters      *)
(*   SpecCompile        generate_standard_funnel_sql called twice          *)
(*   SpecOrderedEvents  the percentile statement up to its GROUP BY        *)
(*   SpecPercentiles    the percentile statement's final SELECT            *)
(*   Spec        execute_analysis, statement by statement                  *)
(***************************************************************************)
EXTENDS Integers, Sequences, FiniteSets, TLC

VARIABLES
    steps,            \* config['steps']: the list of step dicts (mutated in place)
    pre_steps,        \* history: config['steps'] as it was when the last call began
    available,        \* keys of available_events in the last call (the report)
    filtered_steps,   \* the returned list: references (positions) into steps
    fphase,           \* "idle" before check_event_availability, "called" after
    variant,          \* "standard" (funnel_analyzer.py) or "unified" (unified_loans_...)
    table,            \* rows of config['data_source'] inside the lookback window
    sql,              \* the generated funnel statement: the literals embedded in its text
    funnel_clean,     \* rows of the funnel_clean subquery
    funnel_completed, \* rows of the funnel_completed subquery
    qphase,           \* "data", "generated", "executed" or "failed"
    pc,               \* execute_analysis: the statement about to run
    config_keys,      \* keys present in the config dict
    create_percentiles_table,  \* config.get('create_percentiles_table'): Null when absent
    time_period_days, \* config['time_period_days']: Null when absent
    engine,           \* statements the query engine accepted, in order, with their status
    percentiles_sql,  \* Null until generate_percentiles_sql has returned
    result,           \* what execute_analysis returned: "none" while it runs
    stages,           \* history: the stages started so far
    failed,           \* history: the stage that raised, Null when none did
    error,            \* the message of the exception raised, Null when none
    calculated_times, \* rows of the percentile statement's calculated_times: Null before
    aggregated_times, \* screen_name groups of the percentile statement's aggregated_times
    percentiles_table \* rows the percentile statement's SELECT returns, in order: Null before

filterVars == <<steps, pre_steps, available, filtered_steps, fphase>>
funnelVars == <<variant, table, sql, funnel_clean, funnel_completed, qphase>>
execVars == <<pc, config_keys, create_percentiles_table, time_period_days, engine,
              percentiles_sql, result, stages, failed, error,
              calculated_times, aggregated_times, percentiles_table>>
vars == <<filterVars, funnelVars, execVars>>

-----------------------------------------------------------------------------
(* Bounds and domains *)

MaxSteps == 3
MaxRows == 3
MaxTime == 2
MaxMissing == 2

EventSeq == <<"e1", "e2", "e3">>
Events == {EventSeq[i] : i \in 1..Len(EventSeq)}

\* (actor, session) pairs of the source rows
KeySeq == << <<"u1", "s1">>, <<"u1", "s2">> >>

\* nullable values: {} is SQL null / an absent key, {v} is the value v
Null == {}
Some(v) == {v}
TheValue(n) == CHOOSE v \in n : TRUE

\* screen_name of the embedded FUNNEL_CONFIG steps, by position
DefaultScreenNames ==
    << "Tiering - Overview screen", "Tiering - Add money to Fi",
       "Add funds - Enter amount", "Add funds - Payment options",
       "Add funds - Payment success", "Tiering - Upgrade screen" >>

Range(s) == {s[i] : i \in 1..Len(s)}

\* event lists a step may declare: one event, or two in the order of EventSeq
EventLists ==
    {<<EventSeq[i]>> : i \in 1..Len(EventSeq)} \cup
    {<<EventSeq[p[1]], EventSeq[p[2]]>> :
        p \in {p \in (1..Len(EventSeq)) \X (1..Len(EventSeq)) : p[1] < p[2]}}

Injections(n) == {f \in [1..n -> 1..n] : \A i, j \in 1..n : f[i] = f[j] => i = j}

\* a step dict as the caller supplies it: no original_events key yet
Step(r, name, evs) ==
    [rank |-> r, screen_name |-> name, loaded_events |-> evs, original_events |-> Null]

\* caller configs: up to n steps, unique ranks 1..K in any array order
FilterConfigs(n) ==
    UNION {
        {[i \in 1..k |-> Step(rk[i], DefaultScreenNames[i], ev[i])] :
            rk \in Injections(k), ev \in [1..k -> EventLists]}
        : k \in 1..n}

-----------------------------------------------------------------------------
(* check_event_availability *)

\* available_step_events = [event for event in step_events if event in available_events]
AvailableStepEventsUnfiltered(step, avail) == step.loaded_events

AvailableStepEventsFromOriginal(step, avail) ==
    SelectSeq(IF step.original_events # Null THEN TheValue(step.original_events)
              ELSE step.loaded_events,
              LAMBDA e : e \in avail)

AvailableStepEvents(step, avail) ==
    SelectSeq(step.loaded_events, LAMBDA e : e \in avail)

\* step['rank'] = i + 1 for the i-th (0-based) survivor; j is its 1-based position
NewRankOffByOne(j) == j - 1

NewRank(j) == j

\* positions of the steps appended to filtered_steps, in array order
SurvivorPositions(st, avail) ==
    SelectSeq([i \in 1..Len(st) |-> i],
              LAMBDA i : AvailableStepEvents(st[i], avail) # <<>>)

PositionIn(seq, x) == CHOOSE j \in 1..Len(seq) : seq[j] = x

\* the whole call: the survivors are updated in place (loaded_events,
\* original_events, rank), the others are left alone; the returned list
\* holds the same objects
CheckEventAvailability(st, avail) ==
    LET idx == SurvivorPositions(st, avail)
    IN  [steps |->
            [i \in 1..Len(st) |->
                IF i \in Range(idx)
                THEN [st[i] EXCEPT
                        !.loaded_events = AvailableStepEvents(st[i], avail),
                        !.original_events = Some(st[i].loaded_events),
                        !.rank = NewRank(PositionIn(idx, i))]
                ELSE st[i]],
         filtered |-> idx]

\* the step dicts of the returned list, as they read now
FilteredSteps == [j \in 1..Len(filtered_steps) |-> steps[filtered_steps[j]]]

-----------------------------------------------------------------------------
(* SpecFilter *)

NoSql == [step_cases |-> <<>>, filter_events |-> {}, filter_conditions |-> FALSE,
          completion |-> <<>>, columns |-> <<>>]

FunnelIdle ==
    /\ variant = "standard"
    /\ table = <<>>
    /\ sql = NoSql
    /\ funnel_clean = {}
    /\ funnel_completed = {}
    /\ qphase = "data"

ExecIdle ==
    /\ pc = "idle"
    /\ config_keys = {}
    /\ create_percentiles_table = Null
    /\ time_period_days = Null
    /\ calculated_times = Null
    /\ aggregated_times = {}
    /\ percentiles_table = Null
    /\ engine = <<>>
    /\ percentiles_sql = Null
    /\ result = "none"
    /\ stages = <<>>
    /\ failed = Null
    /\ error = Null

InitFilter ==
    /\ steps \in FilterConfigs(MaxSteps)
    /\ pre_steps = steps
    /\ available = {}
    /\ filtered_steps = <<>>
    /\ fphase = "idle"
    /\ FunnelIdle
    /\ ExecIdle

CallCheckEventAvailability ==
    /\ fphase = "idle"
    /\ \E avail \in SUBSET Events :
        LET res == CheckEventAvailability(steps, avail)
        IN  /\ pre_steps' = steps
            /\ available' = avail
            /\ steps' = res.steps
            /\ filtered_steps' = res.filtered
    /\ fphase' = "called"
    /\ UNCHANGED <<funnelVars, execVars>>

NextFilter == CallCheckEventAvailability

SpecFilter == InitFilter /\ [][NextFilter]_vars

-----------------------------------------------------------------------------
(* SpecRefilter: check_event_availability called again and again on the     *)
(* config object get_config returns                                         *)

\* a further call on the same config, the report being any set of events
RepeatCheckEventAvailability ==
    /\ fphase = "called"
    /\ \E avail \in SUBSET Events :
        LET res == CheckEventAvailability(steps, avail)
        IN  /\ pre_steps' = steps
            /\ available' = avail
            /\ steps' = res.steps
            /\ filtered_steps' = res.filtered
    /\ UNCHANGED <<fphase, funnelVars, execVars>>

NextRefilter ==
    \/ CallCheckEventAvailability
    \/ RepeatCheckEventAvailability

SpecRefilter == InitFilter /\ [][NextRefilter]_vars

-----------------------------------------------------------------------------
(* generate_percentiles_sql (standard variant): the final SELECT's two     *)
(* CASE expressions, whose WHEN branches are written out in the source      *)

\* CASE ... END AS step_order
PercentileStepOrder(name) ==
    CASE name = "Tiering - Overview screen" -> 1
      [] name = "Tiering - Add money to Fi" -> 2
      [] name = "Add funds - Enter amount" -> 3
      [] name = "Add funds - Payment options" -> 4
      [] name = "Add funds - Payment success" -> 5
      [] name = "Tiering - Upgrade screen" -> 6
      [] OTHER -> 999

\* CASE ... END AS ordered_screen_name
PercentileOrderedScreenName(name) ==
    CASE name = "Tiering - Overview screen" -> "1 - Tiering - Overview screen"
      [] name = "Tiering - Add money to Fi" -> "2 - Tiering - Add money to Fi"
      [] name = "Add funds - Enter amount" -> "3 - Add funds - Enter amount"
      [] name = "Add funds - Payment options" -> "4 - Add funds - Payment options"
      [] name = "Add funds - Payment success" -> "5 - Add funds - Payment success"
      [] name = "Tiering - Upgrade screen" -> "6 - Tiering - Upgrade screen"
      [] OTHER -> name

-----------------------------------------------------------------------------
(* generate_standard_funnel_sql: the statement is kept as the literals the  *)
(* f-string writes into its text, and evaluated below on a source table     *)

\* "when event in (...) then rank" and "... then 'screen_name'", one per step
StepCasesOriginalEvents(fs) ==
    [j \in 1..Len(fs) |->
        [events |-> Range(TheValue(fs[j].original_events)),
         rank |-> fs[j].rank,
         screen_name |-> fs[j].screen_name]]

StepCases(fs) ==
    [j \in 1..Len(fs) |->
        [events |-> Range(fs[j].loaded_events),
         rank |-> fs[j].rank,
         screen_name |-> fs[j].screen_name]]

\* the standard variant's filter_clause "event in (available_events)"; the
\* unified variant's funnel_base has no predicate on the event
FilterClause(v, fs) ==
    IF v = "standard"
    THEN Some(UNION {Range(fs[j].loaded_events) : j \in 1..Len(fs)})
    ELSE Null

\* the literals of one branch of the UNION ALL in funnel_completed
CompletionCasesPrevSelf(fs) ==
    [j \in 1..Len(fs) |->
        [step_num |-> fs[j].rank,
         screen_name |-> fs[j].screen_name,
         prev_screen |-> fs[j].screen_name,
         n_steps |-> Len(fs)]]

CompletionCases(fs) ==
    [j \in 1..Len(fs) |->
        [step_num |-> fs[j].rank,
         screen_name |-> fs[j].screen_name,
         prev_screen |-> IF j > 1 THEN fs[j - 1].screen_name ELSE "null",
         n_steps |-> Len(fs)]]

\* if not filtered_steps: raise ValueError("No steps with available events found. ...")
NotFilteredStepsNever(fs) == FALSE

NotFilteredSteps(fs) == fs = <<>>

\* whether the WHERE of funnel_base holds " AND ".join(config['filters']): the
\* unified variant writes it, the standard variant never reads config['filters']
FilterConditions(v) == v = "unified"

\* the columns of the final select, in order
FinalColumns(v) ==
    << "actor_id", "current_tier", "affluence_v11_flag", "gender", "income_range",
       "session_id", "app_version", "operating_system", "entry_point", "screen_name",
       "screen_entry_time", "step", "step_stage", "previous_screen_name",
       "screen_success_time", "is_conversion_session", "time_to_convert",
       "table_created_at" >>
    \o (IF v = "unified" THEN << "total_users", "total_users_first_step" >> ELSE << >>)

GenerateStandardFunnelSql(v, fs) ==
    [step_cases |-> StepCases(fs),
     filter_events |-> FilterClause(v, fs),
     filter_conditions |-> FilterConditions(v),
     completion |-> CompletionCases(fs),
     columns |-> FinalColumns(v)]

-----------------------------------------------------------------------------
(* Evaluation of the generated statement *)

Min(S) == CHOOSE x \in S : \A y \in S : x <= y
Max(S) == CHOOSE x \in S : \A y \in S : y <= x

MatchingCases(q, ev) == {j \in 1..Len(q.step_cases) : ev \in q.step_cases[j].events}

\* case when event in (...) then rank ... else null end as step_stage
LabelStepStage(q, ev) ==
    IF MatchingCases(q, ev) = {} THEN Null
    ELSE Some(q.step_cases[Min(MatchingCases(q, ev))].rank)

\* case when event in (...) then 'screen_name' ... else e.event end as screen_name
LabelScreenName(q, ev) ==
    IF MatchingCases(q, ev) = {} THEN ev
    ELSE q.step_cases[Min(MatchingCases(q, ev))].screen_name

\* funnel_base; rid is the position of the source row, kept to tell equal rows apart
FunnelBase(q, v, tbl) ==
    {[rid |-> i,
      actor_id |-> tbl[i].actor,
      session_id |-> IF v = "unified" THEN tbl[i].actor ELSE tbl[i].session,
      event |-> tbl[i].event,
      screen_entry_time |-> tbl[i].time,
      step_stage |-> LabelStepStage(q, tbl[i].event),
      screen_name |-> LabelScreenName(q, tbl[i].event)] :
        i \in {i \in 1..Len(tbl) :
                 /\ q.filter_events = Null \/ tbl[i].event \in TheValue(q.filter_events)
                 /\ q.filter_conditions => tbl[i].passes}}

\* rows of funnel_base that pass "where step_stage is not null"
Labelled(base) == {b \in base : b.step_stage # Null}

SamePartition(x, y) == x.actor_id = y.actor_id /\ x.session_id = y.session_id

SameGroup(x, y) ==
    /\ SamePartition(x, y)
    /\ x.screen_name = y.screen_name
    /\ x.step_stage = y.step_stage

\* A window's ORDER BY screen_entry_time leaves rows with equal times in an
\* order the engine picks. A pick is the set of tied pairs <<rid, rid>> it
\* presents against the order of their rids.
WindowTies(lab) ==
    {<<p[1].rid, p[2].rid>> : p \in
        {p \in lab \X lab :
            /\ p[1].rid < p[2].rid
            /\ p[1].screen_entry_time = p[2].screen_entry_time
            /\ SamePartition(p[1], p[2])}}

QualifyTies(lab) ==
    {<<p[1].rid, p[2].rid>> : p \in
        {p \in lab \X lab :
            /\ p[1].rid < p[2].rid
            /\ p[1].screen_entry_time = p[2].screen_entry_time
            /\ SameGroup(p[1], p[2])}}

\* x is presented before y by ORDER BY screen_entry_time under the pick
Before(pick, x, y) ==
    \/ x.screen_entry_time < y.screen_entry_time
    \/ /\ x.screen_entry_time = y.screen_entry_time
       /\ \/ x.rid < y.rid /\ <<x.rid, y.rid>> \notin pick
          \/ y.rid < x.rid /\ <<y.rid, x.rid>> \in pick

\* the picks that are orders
Picks(lab, ties) ==
    {pick \in SUBSET ties :
        \A x, y, z \in lab :
            Before(pick, x, y) /\ Before(pick, y, z) => Before(pick, x, z)}

\* timestamp_diff(a, b, second), times being whole minutes
TimestampDiffSecond(a, b) == 60 * (a - b)

\* qualify row_number() over (partition by actor_id, session_id, screen_name,
\* step_stage order by step_stage desc, screen_entry_time desc) = 1
QualifyRowNumberOneAscending(lab, pick2, r) ==
    \A x \in lab \ {r} : SameGroup(x, r) => Before(pick2, r, x)

QualifyRowNumberOne(lab, pick2, r) ==
    \A x \in lab \ {r} : SameGroup(x, r) => Before(pick2, x, r)

\* funnel_clean over lab, the rows of funnel_base with step_stage not null:
\* lag / lead over (actor_id,
\* session_id) ordered by screen_entry_time (ties as in pick); qualify
\* row_number() = 1 over (actor_id, session_id, screen_name, step_stage)
\* ordered by step_stage desc, screen_entry_time desc (ties as in pick2)
FunnelClean(lab, pick, pick2) ==
    LET Earlier(r) == {x \in lab : SamePartition(x, r) /\ Before(pick, x, r)}
        Later(r) == {x \in lab : SamePartition(x, r) /\ Before(pick, r, x)}
        LagRow(r) == CHOOSE x \in Earlier(r) :
                        \A y \in Earlier(r) \ {x} : Before(pick, y, x)
        LeadRow(r) == CHOOSE x \in Later(r) :
                        \A y \in Later(r) \ {x} : Before(pick, x, y)
    IN  {[rid |-> r.rid,
          actor_id |-> r.actor_id,
          session_id |-> r.session_id,
          screen_name |-> r.screen_name,
          screen_entry_time |-> r.screen_entry_time,
          step_stage |-> TheValue(r.step_stage),
          previous_screen_name |->
              IF Earlier(r) = {} THEN Null ELSE Some(LagRow(r).screen_name),
          screen_success_time |->
              IF Later(r) = {} THEN Null ELSE Some(LeadRow(r).screen_entry_time),
          is_conversion_session |-> IF Later(r) = {} THEN 0 ELSE 1,
          time_to_convert |->
              IF Later(r) = {} THEN Null
              ELSE Some(TimestampDiffSecond(LeadRow(r).screen_entry_time,
                                            r.screen_entry_time))] :
            r \in {r \in lab : QualifyRowNumberOne(lab, pick2, r)}}

\* where step_stage >= {step_num}
CompletionWhereStrict(c, r) == r.step_stage > c.step_num

CompletionWhereAll(c, r) == TRUE

CompletionWhere(c, r) == r.step_stage >= c.step_num

\* case when step_stage = {step_num} then screen_entry_time
\*      else timestamp_sub(screen_entry_time, interval {step_num - 1} minute) end
CompletedEntryTimeAlwaysSub(c, r) == r.screen_entry_time - (c.step_num - 1)

CompletedEntryTimeOffByOne(c, r) ==
    IF r.step_stage = c.step_num THEN r.screen_entry_time
    ELSE r.screen_entry_time - c.step_num

CompletedEntryTime(c, r) ==
    IF r.step_stage = c.step_num THEN r.screen_entry_time
    ELSE r.screen_entry_time - (c.step_num - 1)

\* case when step_stage = {step_num} then previous_screen_name
\*      when {step_num} = 1 then null else '{filtered_steps[i-1]['screen_name']}' end
CompletedPreviousScreenName(c, r) ==
    IF r.step_stage = c.step_num THEN r.previous_screen_name
    ELSE IF c.step_num = 1 THEN Null
    ELSE Some(c.prev_screen)

\* case when step_stage = {step_num} then screen_success_time
\*      when {step_num} = {len(filtered_steps)} then null
\*      else timestamp_add(screen_entry_time, interval 1 minute) end
CompletedSuccessTimeFromBackdated(c, r) ==
    IF r.step_stage = c.step_num THEN r.screen_success_time
    ELSE IF c.step_num = c.n_steps THEN Null
    ELSE Some(r.screen_entry_time - (c.step_num - 1) + 1)

CompletedSuccessTime(c, r) ==
    IF r.step_stage = c.step_num THEN r.screen_success_time
    ELSE IF c.step_num = c.n_steps THEN Null
    ELSE Some(r.screen_entry_time + 1)

\* case when step_stage = {step_num} then is_conversion_session
\*      when {step_num} = {len(filtered_steps)} then 0 else 1 end
CompletedIsConversionSession(c, r) ==
    IF r.step_stage = c.step_num THEN r.is_conversion_session
    ELSE IF c.step_num = c.n_steps THEN 0
    ELSE 1

SyntheticTimeToConvert == 60

\* case when step_stage = {step_num} then time_to_convert
\*      when {step_num} = {len(filtered_steps)} then null else 60 end
CompletedTimeToConvert(c, r) ==
    IF r.step_stage = c.step_num THEN r.time_to_convert
    ELSE IF c.step_num = c.n_steps THEN Null
    ELSE Some(SyntheticTimeToConvert)

\* funnel_completed: the UNION ALL of one select per step over funnel_clean.
\* branch and src (the branch of the union and the funnel_clean row a row was
\* selected from) are not columns: they keep the rows of the bag apart
FunnelCompleted(q, clean) ==
    {[branch |-> j,
      src |-> r.rid,
      actor_id |-> r.actor_id,
      session_id |-> r.session_id,
      screen_name |-> q.completion[j].screen_name,
      screen_entry_time |-> CompletedEntryTime(q.completion[j], r),
      step_stage |-> q.completion[j].step_num,
      previous_screen_name |-> CompletedPreviousScreenName(q.completion[j], r),
      screen_success_time |-> CompletedSuccessTime(q.completion[j], r),
      is_conversion_session |-> CompletedIsConversionSession(q.completion[j], r),
      time_to_convert |-> CompletedTimeToConvert(q.completion[j], r)] :
        <<j, r>> \in {p \in (1..Len(q.completion)) \X clean :
                        CompletionWhere(q.completion[p[1]], p[2])}}

\* the final select: the columns of funnel_completed and step, the stage as a string
FinalProjection(completed) ==
    {[branch |-> o.branch,
      src |-> o.src,
      actor_id |-> o.actor_id,
      session_id |-> o.session_id,
      screen_name |-> o.screen_name,
      screen_entry_time |-> o.screen_entry_time,
      step |-> ToString(o.step_stage),
      step_stage |-> o.step_stage,
      previous_screen_name |-> o.previous_screen_name,
      screen_success_time |-> o.screen_success_time,
      is_conversion_session |-> o.is_conversion_session,
      time_to_convert |-> o.time_to_convert] : o \in completed}

\* the rows of the created table: the final select over funnel_completed
standard_funnel == FinalProjection(funnel_completed)

-----------------------------------------------------------------------------
(* SpecFunnel *)

ScenarioSteps ==
    << Step(1, "A", <<"e1">>), Step(2, "B", <<"e2">>), Step(3, "C", <<"e3">>) >>

MultiEventSteps ==
    << Step(1, "A", <<"e1", "e2">>), Step(2, "B", <<"e3">>) >>

\* "e1" is declared by both steps, "e3" by none
OverlapSteps ==
    << Step(1, "A", <<"e1">>), Step(2, "B", <<"e1", "e2">>) >>

\* step "D" declares no event, so the filtering always drops it
DroppedSteps ==
    << Step(1, "A", <<"e1">>), Step(2, "D", << >>), Step(3, "B", <<"e2">>),
       Step(4, "C", <<"e3">>) >>

FunnelConfigs == {ScenarioSteps, MultiEventSteps, OverlapSteps, DroppedSteps}

\* source rows are kept in a fixed order of (key, event, time), so that a
\* table is one bag of rows and not each of its permutations
RowCode(k, e, t) == ((k - 1) * Len(EventSeq) + (e - 1)) * (MaxTime + 1) + t

\* passes: whether the row satisfies every predicate of config['filters']
SourceRow(k, e, t) ==
    [actor |-> KeySeq[k][1], session |-> KeySeq[k][2], event |-> EventSeq[e],
     time |-> t, passes |-> TRUE, code |-> RowCode(k, e, t)]

InitFunnel ==
    /\ steps \in FunnelConfigs
    /\ pre_steps = steps
    /\ available = {}
    /\ filtered_steps = <<>>
    /\ fphase = "idle"
    /\ variant \in {"standard", "unified"}
    /\ table = <<>>
    /\ sql = NoSql
    /\ funnel_clean = {}
    /\ funnel_completed = {}
    /\ qphase = "data"
    /\ ExecIdle

\* the data source receives a row
InsertRow ==
    /\ qphase = "data"
    /\ Len(table) < MaxRows
    /\ \E k \in 1..Len(KeySeq), e \in 1..Len(EventSeq), t \in 0..MaxTime :
        /\ table # <<>> => table[Len(table)].code <= RowCode(k, e, t)
        /\ table' = Append(table, SourceRow(k, e, t))
    /\ UNCHANGED <<filterVars, variant, sql, funnel_clean, funnel_completed, qphase, execVars>>

\* events of the rows the availability query counts: the unified variant's
\* query holds the config's filters, the standard variant's does not
TableEvents ==
    {table[i].event :
        i \in {i \in 1..Len(table) : FilterConditions(variant) => table[i].passes}}

\* generate_standard_funnel_sql(config): filters, raises when nothing is left,
\* builds the statement from the filtered steps. The availability query reads
\* the same data source and window as the statement, so every event of the
\* table is in its report; events of rows the statement leaves out (a null
\* session id) may be in it as well.
CallGenerateStandardFunnelSql ==
    /\ qphase = "data"
    /\ \E avail \in {a \in SUBSET Events : TableEvents \subseteq a} :
        LET res == CheckEventAvailability(steps, avail)
            fs == [j \in 1..Len(res.filtered) |-> res.steps[res.filtered[j]]]
        IN  /\ pre_steps' = steps
            /\ available' = avail
            /\ steps' = res.steps
            /\ filtered_steps' = res.filtered
            /\ IF NotFilteredSteps(res.filtered)
               THEN sql' = NoSql /\ qphase' = "failed"
               ELSE sql' = GenerateStandardFunnelSql(variant, fs) /\ qphase' = "generated"
    /\ fphase' = "called"
    /\ UNCHANGED <<variant, table, funnel_clean, funnel_completed, execVars>>

\* the query engine runs the statement
ExecuteFunnelSql ==
    /\ qphase = "generated"
    /\ LET lab == Labelled(FunnelBase(sql, variant, table))
       IN  \E pick \in Picks(lab, WindowTies(lab)), pick2 \in Picks(lab, QualifyTies(lab)) :
             LET clean == FunnelClean(lab, pick, pick2)
             IN  /\ funnel_clean' = clean
                 /\ funnel_completed' = FunnelCompleted(sql, clean)
    /\ qphase' = "executed"
    /\ UNCHANGED <<filterVars, variant, table, sql, execVars>>

NextFunnel ==
    \/ InsertRow
    \/ CallGenerateStandardFunnelSql
    \/ ExecuteFunnelSql

SpecFunnel == InitFunnel /\ [][NextFunnel]_vars

-----------------------------------------------------------------------------
(* SpecScan: SpecFunnel over source rows that may fail the config's filters *)

\* the data source receives a row that passes the predicates of
\* config['filters'], or one that does not
InsertSourceRow ==
    /\ qphase = "data"
    /\ Len(table) < MaxRows
    /\ \E k \in 1..Len(KeySeq), e \in 1..Len(EventSeq), p \in BOOLEAN :
        LET code == 2 * RowCode(k, e, 0) + (IF p THEN 1 ELSE 0)
        IN  /\ table # <<>> => table[Len(table)].code <= code
            /\ table' = Append(table,
                    [SourceRow(k, e, 0) EXCEPT !.passes = p, !.code = code])
    /\ UNCHANGED <<filterVars, variant, sql, funnel_clean, funnel_completed, qphase, execVars>>

NextScan ==
    \/ InsertSourceRow
    \/ CallGenerateStandardFunnelSql
    \/ ExecuteFunnelSql

SpecScan == InitFunnel /\ [][NextScan]_vars

-----------------------------------------------------------------------------
(* SpecCompile: generate_standard_funnel_sql called twice on one config *)

InitCompile ==
    /\ steps \in FilterConfigs(MaxSteps)
    /\ pre_steps = steps
    /\ available = {}
    /\ filtered_steps = <<>>
    /\ fphase = "idle"
    /\ variant \in {"standard", "unified"}
    /\ table = <<>>
    /\ sql = NoSql
    /\ funnel_clean = {}
    /\ funnel_completed = {}
    /\ qphase = "data"
    /\ ExecIdle

\* a second generate_standard_funnel_sql(config) on the config object the
\* first call left behind, the availability query reporting the same events
CallGenerateStandardFunnelSqlAgain ==
    /\ fphase = "called"
    /\ qphase \in {"generated", "failed"}
    /\ LET res == CheckEventAvailability(steps, available)
           fs == [j \in 1..Len(res.filtered) |-> res.steps[res.filtered[j]]]
       IN  /\ pre_steps' = steps
           /\ steps' = res.steps
           /\ filtered_steps' = res.filtered
           /\ IF NotFilteredSteps(res.filtered)
              THEN sql' = NoSql /\ qphase' = "failed"
              ELSE sql' = GenerateStandardFunnelSql(variant, fs) /\ qphase' = "generated"
    /\ fphase' = "recalled"
    /\ UNCHANGED <<available, variant, table, funnel_clean, funnel_completed, execVars>>

NextCompile ==
    \/ CallGenerateStandardFunnelSql
    \/ CallGenerateStandardFunnelSqlAgain

SpecCompile == InitCompile /\ [][NextCompile]_vars

-----------------------------------------------------------------------------
(* SpecPercentiles: the SELECT of generate_percentiles_sql over the groups  *)
(* of aggregated_times                                                      *)

MaxNames == 4

\* screen_name of the steps of the unified analyzer's FUNNEL_CONFIG, by position
UnifiedScreenNames ==
    << "Offer Generated",
       "Application Loan Request Created",
       "Address Step",
       "Applicant Creation",
       "KYC Document Download",
       "CKYC",
       "Liveness Check",
       "Risk Check",
       "AML",
       "Vendor BRE",
       "Drawdown",
       "Penny Drop",
       "Mandate",
       "Contactability",
       "KFS",
       "VKYC",
       "Loan Amount Disbursal",
       "Loan Account Created" >>

\* CASE ... END AS step_order (unified variant)
UnifiedPercentileStepOrder(name) ==
    CASE name = "Offer Generated" -> 1
      [] name = "Application Loan Request Created" -> 2
      [] name = "Address Step" -> 3
      [] name = "Applicant Creation" -> 4
      [] name = "KYC Document Download" -> 5
      [] name = "CKYC" -> 6
      [] name = "Liveness Check" -> 7
      [] name = "Risk Check" -> 8
      [] name = "AML" -> 9
      [] name = "Vendor BRE" -> 10
      [] name = "Drawdown" -> 11
      [] name = "Penny Drop" -> 12
      [] name = "Mandate" -> 13
      [] name = "Contactability" -> 14
      [] name = "KFS" -> 15
      [] name = "VKYC" -> 16
      [] name = "Loan Amount Disbursal" -> 17
      [] name = "Loan Account Created" -> 18
      [] OTHER -> 999

\* CASE ... END AS ordered_screen_name (unified variant)
UnifiedPercentileOrderedScreenName(name) ==
    CASE name = "Offer Generated" -> "1 - Offer Generated"
      [] name = "Application Loan Request Created" -> "2 - Application Loan Request Created"
      [] name = "Address Step" -> "3 - Address Step"
      [] name = "Applicant Creation" -> "4 - Applicant Creation"
      [] name = "KYC Document Download" -> "5 - KYC Document Download"
      [] name = "CKYC" -> "6 - CKYC"
      [] name = "Liveness Check" -> "7 - Liveness Check"
      [] name = "Risk Check" -> "8 - Risk Check"
      [] name = "AML" -> "9 - AML"
      [] name = "Vendor BRE" -> "10 - Vendor BRE"
      [] name = "Drawdown" -> "11 - Drawdown"
      [] name = "Penny Drop" -> "12 - Penny Drop"
      [] name = "Mandate" -> "13 - Mandate"
      [] name = "Contactability" -> "14 - Contactability"
      [] name = "KFS" -> "15 - KFS"
      [] name = "VKYC" -> "16 - VKYC"
      [] name = "Loan Amount Disbursal" -> "17 - Loan Amount Disbursal"
      [] name = "Loan Account Created" -> "18 - Loan Account Created"
      [] OTHER -> name

\* one row of the SELECT, the percentile values left out
PercentileRow(v, name) ==
    [screen_name |-> name,
     ordered_screen_name |->
         IF v = "standard" THEN PercentileOrderedScreenName(name)
         ELSE UnifiedPercentileOrderedScreenName(name),
     step_order |->
         IF v = "standard" THEN PercentileStepOrder(name)
         ELSE UnifiedPercentileStepOrder(name)]

\* ORDER BY step_order: rows with equal step_order come in any order
OrderByNothing(rows) == TRUE

OrderByStepOrder(rows) ==
    \A i, j \in 1..Len(rows) : i < j => rows[i].step_order <= rows[j].step_order

\* the results the SELECT can return for the groups in names
PercentilesSelect(v, names) ==
    {rows \in [1..Cardinality(names) -> {PercentileRow(v, n) : n \in names}] :
        /\ \A i, j \in 1..Cardinality(names) : rows[i] = rows[j] => i = j
        /\ OrderByStepOrder(rows)}

\* screen names the funnel table may hold: names of the embedded config and
\* names of a caller's config
PercentileScreenNames(v) ==
    IF v = "standard"
    THEN Range(DefaultScreenNames) \cup {"A", "B"}
    ELSE {UnifiedScreenNames[i] : i \in {1, 2, 9, 10, 11, 18}} \cup {"A", "B"}

InitPercentiles ==
    /\ steps = <<>>
    /\ pre_steps = <<>>
    /\ available = {}
    /\ filtered_steps = <<>>
    /\ fphase = "idle"
    /\ variant \in {"standard", "unified"}
    /\ table = <<>>
    /\ sql = NoSql
    /\ funnel_clean = {}
    /\ funnel_completed = {}
    /\ qphase = "data"
    /\ pc = "idle"
    /\ config_keys = {}
    /\ create_percentiles_table = Null
    /\ time_period_days = Null
    /\ engine = <<>>
    /\ percentiles_sql = Null
    /\ result = "none"
    /\ stages = <<>>
    /\ failed = Null
    /\ error = Null
    /\ calculated_times = Null
    /\ aggregated_times \in
          {n \in SUBSET PercentileScreenNames(variant) : Cardinality(n) <= MaxNames}
    /\ percentiles_table = Null

\* the query engine runs the percentile statement's SELECT
ExecutePercentilesSql ==
    /\ percentiles_table = Null
    /\ \E rows \in PercentilesSelect(variant, aggregated_times) :
          percentiles_table' = Some(rows)
    /\ UNCHANGED <<filterVars, funnelVars, pc, config_keys, create_percentiles_table,
                   time_period_days, engine, percentiles_sql, result, stages, failed,
                   error, calculated_times, aggregated_times>>

NextPercentiles == ExecutePercentilesSql

SpecPercentiles == InitPercentiles /\ [][NextPercentiles]_vars

-----------------------------------------------------------------------------
(* SpecOrderedEvents: ordered_events, calculated_times and the groups of    *)
(* aggregated_times of generate_percentiles_sql, over any funnel table      *)

ActorSeq == <<"u1", "u2">>

\* a row of the funnel table: code gives its actor, step and entry time, i
\* tells equal rows apart
FunnelTableRow(i, code) ==
    LET t == code % (MaxTime + 1)
        st == ((code \div (MaxTime + 1)) % MaxSteps) + 1
        a == (code \div ((MaxTime + 1) * MaxSteps)) + 1
    IN  [branch |-> st,
         src |-> i,
         actor_id |-> ActorSeq[a],
         session_id |-> "s1",
         screen_name |-> DefaultScreenNames[st],
         screen_entry_time |-> t,
         step_stage |-> st,
         previous_screen_name |-> Null,
         screen_success_time |-> Null,
         is_conversion_session |-> 0,
         time_to_convert |-> Null]

\* funnel tables of up to n rows, each bag of rows once
FunnelTables(n) ==
    UNION {
        {{FunnelTableRow(i, cs[i]) : i \in 1..k} :
            cs \in {cs \in [1..k -> 0..(Len(ActorSeq) * MaxSteps * (MaxTime + 1) - 1)] :
                      \A i, j \in 1..k : i < j => cs[i] <= cs[j]}}
        : k \in 0..n}

InitOrderedEvents ==
    /\ steps = <<>>
    /\ pre_steps = <<>>
    /\ available = {}
    /\ filtered_steps = <<>>
    /\ fphase = "idle"
    /\ variant \in {"standard", "unified"}
    /\ table = <<>>
    /\ sql = NoSql
    /\ funnel_clean = {}
    /\ funnel_completed \in FunnelTables(MaxRows)
    /\ qphase = "executed"
    /\ ExecIdle

\* ORDER BY screen_entry_time: x may come before y in its partition
OrderedEventsOrderByStepStage(x, y) == x.step_stage <= y.step_stage

OrderedEventsOrderBy(x, y) == x.screen_entry_time <= y.screen_entry_time

\* the orders in which the windows of ordered_events may present the rows:
\* every row once, each actor's rows by screen_entry_time
OrderedEventsOrders(rows) ==
    {ord \in [1..Cardinality(rows) -> rows] :
        /\ \A i, j \in 1..Cardinality(rows) : ord[i] = ord[j] => i = j
        /\ \A i, j \in 1..Cardinality(rows) :
              (i < j /\ ord[i].actor_id = ord[j].actor_id)
                  => OrderedEventsOrderBy(ord[i], ord[j])}

\* ordered_events: LEAD(...) OVER (PARTITION BY actor_id ORDER BY screen_entry_time)
OrderedEvents(ord) ==
    LET After(i) == {j \in (i + 1)..Len(ord) : ord[j].actor_id = ord[i].actor_id}
    IN  {[src |-> ord[i].src,
          actor_id |-> ord[i].actor_id,
          step_stage |-> ord[i].step_stage,
          screen_name |-> ord[i].screen_name,
          screen_entry_time |-> ord[i].screen_entry_time,
          next_screen_entry_time |->
              IF After(i) = {} THEN Null ELSE Some(ord[Min(After(i))].screen_entry_time),
          next_step_stage |->
              IF After(i) = {} THEN Null ELSE Some(ord[Min(After(i))].step_stage)] :
            i \in 1..Len(ord)}

\* calculated_times: WHERE next_screen_entry_time IS NOT NULL AND
\* TIMESTAMP_DIFF(next_screen_entry_time, screen_entry_time, SECOND) >= 0
CalculatedTimes(ordered) ==
    {[src |-> e.src,
      actor_id |-> e.actor_id,
      step_stage |-> e.step_stage,
      screen_name |-> e.screen_name,
      next_step_stage |-> e.next_step_stage,
      time_to_next_step_seconds |->
          TimestampDiffSecond(TheValue(e.next_screen_entry_time), e.screen_entry_time)] :
        e \in {e \in ordered :
                 /\ e.next_screen_entry_time # Null
                 /\ TimestampDiffSecond(TheValue(e.next_screen_entry_time),
                                        e.screen_entry_time) >= 0}}

\* the query engine runs the percentile statement up to GROUP BY screen_name
ExecuteOrderedEvents ==
    /\ calculated_times = Null
    /\ \E ord \in OrderedEventsOrders(standard_funnel) :
          LET calc == CalculatedTimes(OrderedEvents(ord))
          IN  /\ calculated_times' = Some(calc)
              /\ aggregated_times' = {c.screen_name : c \in calc}
    /\ UNCHANGED <<filterVars, funnelVars, pc, config_keys, create_percentiles_table,
                   time_period_days, engine, percentiles_sql, result, stages, failed,
                   error, percentiles_table>>

NextOrderedEvents == ExecuteOrderedEvents

SpecOrderedEvents == InitOrderedEvents /\ [][NextOrderedEvents]_vars

-----------------------------------------------------------------------------
(* execute_analysis (Spec) *)

RequiredFields ==
    << "funnel_name", "project_id", "source_dataset", "destination_dataset",
       "data_source", "user_id_column", "session_id_column", "event_column",
       "timestamp_column", "partition_column", "time_period_days", "steps" >>

\* keys the code reads without validate_config asking for them
OptionalKeys == {"filters", "percentiles_table_name"}

\* validate_config: Null when it returns True, else the ValueError's message
ValidateConfigLastMissing(keys, st) ==
    LET missing == {i \in 1..Len(RequiredFields) : RequiredFields[i] \notin keys}
    IN  IF missing # {}
        THEN Some("Missing required field: " \o RequiredFields[Max(missing)])
        ELSE IF Len(st) = 0
        THEN Some("Steps must be a non-empty array")
        ELSE Null

ValidateConfig(keys, st) ==
    LET missing == {i \in 1..Len(RequiredFields) : RequiredFields[i] \notin keys}
    IN  IF missing # {}
        THEN Some("Missing required field: " \o RequiredFields[Min(missing)])
        ELSE IF Len(st) = 0
        THEN Some("Steps must be a non-empty array")
        ELSE Null

\* the table generate_percentiles_sql reads, and the one it creates
GeneratePercentilesSql(v) ==
    [reads |-> IF v = "standard" THEN "STANDARD_FUNNEL" ELSE "EARLY_SALARY_STANDARD_FUNNEL",
     creates |-> "percentiles_table_name"]

\* except Exception as e: ... return False
ExceptionResultReraise == "raised"

ExceptionResult == "False"

\* the except clause ends the call: nothing is run again
PcAfterExceptRetry == "funnel_query"

PcAfterExcept == "done"

\* query_job = self.client.query(sql) is followed by query_job.result()
PcAfterFunnelQueryNoWait == "funnel_table_info"

PcAfterFunnelQuery == "funnel_result"

ExecConfigs == FunnelConfigs \cup {<<>>}

\* values of config['time_period_days']
TimePeriodDays == {0, 1}

ConfigKeySets ==
    {(Range(RequiredFields) \ m) \cup opt :
        m \in {m \in SUBSET Range(RequiredFields) : Cardinality(m) <= MaxMissing},
        opt \in SUBSET OptionalKeys}

Init ==
    /\ variant \in {"standard", "unified"}
    /\ config_keys \in ConfigKeySets
    /\ steps \in ExecConfigs
    /\ "steps" \notin config_keys => steps = <<>>
    /\ create_percentiles_table \in {Null, Some(TRUE), Some(FALSE)}
    /\ time_period_days \in {Some(d) : d \in TimePeriodDays} \cup {Null}
    /\ "time_period_days" \in config_keys <=> time_period_days # Null
    /\ calculated_times = Null
    /\ aggregated_times = {}
    /\ percentiles_table = Null
    /\ pre_steps = steps
    /\ available = {}
    /\ filtered_steps = <<>>
    /\ fphase = "idle"
    /\ table = <<>>
    /\ sql = NoSql
    /\ funnel_clean = {}
    /\ funnel_completed = {}
    /\ qphase = "data"
    /\ pc = "validate"
    /\ engine = <<>>
    /\ percentiles_sql = Null
    /\ result = "none"
    /\ stages = <<>>
    /\ failed = Null
    /\ error = Null

dataVars == <<variant, table, funnel_clean, funnel_completed, qphase,
              calculated_times, aggregated_times, percentiles_table>>
configVars == <<config_keys, create_percentiles_table, time_period_days>>

\* an exception leaves the try block for the except clause
Raise(stage, msg) ==
    /\ pc' = "except"
    /\ failed' = Some(stage)
    /\ error' = Some(msg)

Submit(stmt) == engine' = Append(engine, [stmt |-> stmt, status |-> "running"])

Finish(status) == engine' = [engine EXCEPT ![Len(engine)].status = status]

\* self.validate_config(config)
Validate ==
    /\ pc = "validate"
    /\ stages' = Append(stages, "validation")
    /\ IF ValidateConfig(config_keys, steps) # Null
       THEN Raise("validation", TheValue(ValidateConfig(config_keys, steps)))
       ELSE pc' = "availability_query" /\ UNCHANGED <<failed, error>>
    /\ UNCHANGED <<filterVars, sql, dataVars, configVars, engine, percentiles_sql, result>>

\* check_event_availability up to query_job = self.client.query(query); the
\* unified variant reads config['filters'] to build the query
QueryAvailability ==
    /\ pc = "availability_query"
    /\ stages' = Append(stages, "availability")
    /\ IF variant = "unified" /\ "filters" \notin config_keys
       THEN Raise("availability", "'filters'") /\ UNCHANGED engine
       ELSE \/ /\ Submit("availability")
               /\ pc' = "availability_rows"
               /\ UNCHANGED <<failed, error>>
            \/ /\ Raise("availability", "ExecutionError")
               /\ UNCHANGED engine
    /\ UNCHANGED <<filterVars, sql, dataVars, configVars, percentiles_sql, result>>

\* results = list(query_job), then the rest of check_event_availability and
\* of generate_standard_funnel_sql
AvailabilityRows ==
    /\ pc = "availability_rows"
    /\ \/ /\ Finish("failed")
          /\ Raise("availability", "ExecutionError")
          /\ UNCHANGED <<filterVars, sql, stages>>
       \/ /\ Finish("succeeded")
          /\ stages' = Append(stages, "funnel_compilation")
          /\ \E avail \in SUBSET Events :
              LET res == CheckEventAvailability(steps, avail)
                  fs == [j \in 1..Len(res.filtered) |-> res.steps[res.filtered[j]]]
              IN  /\ pre_steps' = steps
                  /\ available' = avail
                  /\ steps' = res.steps
                  /\ filtered_steps' = res.filtered
                  /\ fphase' = "called"
                  /\ IF NotFilteredSteps(res.filtered)
                     THEN /\ Raise("funnel_compilation",
                                "No steps with available events found. Check your event names.")
                          /\ sql' = NoSql
                     ELSE /\ sql' = GenerateStandardFunnelSql(variant, fs)
                          /\ pc' = "funnel_query"
                          /\ UNCHANGED <<failed, error>>
    /\ UNCHANGED <<dataVars, configVars, percentiles_sql, result>>

\* query_job = self.client.query(sql)
FunnelQuery ==
    /\ pc = "funnel_query"
    /\ stages' = Append(stages, "funnel_execution")
    /\ \/ /\ Submit("funnel")
          /\ pc' = PcAfterFunnelQuery
          /\ UNCHANGED <<failed, error>>
       \/ /\ Raise("funnel_execution", "ExecutionError")
          /\ UNCHANGED engine
    /\ UNCHANGED <<filterVars, sql, dataVars, configVars, percentiles_sql, result>>

\* query_job.result()  # Wait for completion
FunnelResult ==
    /\ pc = "funnel_result"
    /\ \/ /\ Finish("succeeded")
          /\ pc' = "funnel_table_info"
          /\ UNCHANGED <<failed, error>>
       \/ /\ Finish("failed")
          /\ Raise("funnel_execution", "ExecutionError")
    /\ UNCHANGED <<filterVars, sql, dataVars, configVars, percentiles_sql, result, stages>>

\* table = self.client.get_table(table_ref)
FunnelTableInfo ==
    /\ pc = "funnel_table_info"
    /\ \/ pc' = "percentiles_branch" /\ UNCHANGED <<failed, error>>
       \/ Raise("funnel_execution", "ExecutionError")
    /\ UNCHANGED <<filterVars, sql, dataVars, configVars, engine, percentiles_sql,
                   result, stages>>

\* if config.get('create_percentiles_table', False): ... generate_percentiles_sql
PercentilesBranch ==
    /\ pc = "percentiles_branch"
    /\ IF create_percentiles_table = Some(TRUE)
       THEN /\ stages' = Append(stages, "percentile_compilation")
            /\ IF "percentiles_table_name" \notin config_keys
               THEN Raise("percentile_compilation", "'percentiles_table_name'")
                    /\ UNCHANGED percentiles_sql
               ELSE /\ percentiles_sql' = Some(GeneratePercentilesSql(variant))
                    /\ pc' = "percentiles_query"
                    /\ UNCHANGED <<failed, error>>
       ELSE /\ pc' = "return_true"
            /\ UNCHANGED <<stages, percentiles_sql, failed, error>>
    /\ UNCHANGED <<filterVars, sql, dataVars, configVars, engine, result>>

\* percentiles_job = self.client.query(percentiles_sql)
PercentilesQuery ==
    /\ pc = "percentiles_query"
    /\ stages' = Append(stages, "percentile_execution")
    /\ \/ /\ Submit("percentiles")
          /\ pc' = "percentiles_result"
          /\ UNCHANGED <<failed, error>>
       \/ /\ Raise("percentile_execution", "ExecutionError")
          /\ UNCHANGED engine
    /\ UNCHANGED <<filterVars, sql, dataVars, configVars, percentiles_sql, result>>

\* percentiles_job.result()  # Wait for completion
PercentilesResult ==
    /\ pc = "percentiles_result"
    /\ \/ /\ Finish("succeeded")
          /\ pc' = "percentiles_table_info"
          /\ UNCHANGED <<failed, error>>
       \/ /\ Finish("failed")
          /\ Raise("percentile_execution", "ExecutionError")
    /\ UNCHANGED <<filterVars, sql, dataVars, configVars, percentiles_sql, result, stages>>

\* percentiles_table = self.client.get_table(percentiles_table_ref)
PercentilesTableInfo ==
    /\ pc = "percentiles_table_info"
    /\ \/ pc' = "return_true" /\ UNCHANGED <<failed, error>>
       \/ Raise("percentile_execution", "ExecutionError")
    /\ UNCHANGED <<filterVars, sql, dataVars, configVars, engine, percentiles_sql,
                   result, stages>>

\* return True
ReturnTrue ==
    /\ pc = "return_true"
    /\ result' = "True"
    /\ pc' = "done"
    /\ UNCHANGED <<filterVars, sql, dataVars, configVars, engine, percentiles_sql,
                   stages, failed, error>>

\* except Exception as e: print(...); return False
HandleException ==
    /\ pc = "except"
    /\ result' = ExceptionResult
    /\ pc' = PcAfterExcept
    /\ UNCHANGED <<filterVars, sql, dataVars, configVars, engine, percentiles_sql,
                   stages, failed, error>>

Next ==
    \/ Validate
    \/ QueryAvailability
    \/ AvailabilityRows
    \/ FunnelQuery
    \/ FunnelResult
    \/ FunnelTableInfo
    \/ PercentilesBranch
    \/ PercentilesQuery
    \/ PercentilesResult
    \/ PercentilesTableInfo
    \/ ReturnTrue
    \/ HandleException

Spec == Init /\ [][Next]_vars

-----------------------------------------------------------------------------
(* Claims on check_event_availability (SpecFilter) *)

DeclaredEvents(step) == Range(step.loaded_events)

\* positions of the steps of the call's input with a declared event in the report
StepsWithAvailableEvent ==
    {i \in 1..Len(pre_steps) : DeclaredEvents(pre_steps[i]) \cap available # {}}

\* C5: after a call, the returned list holds exactly the steps of the input
\* step list with at least one declared event in the report, in array order
\* and without repeats, their ranks are 1..K' by position, and when every
\* declared event is in the report all K steps are returned in order.
C5_AvailabilityFiltering ==
    fphase = "called" =>
        /\ Range(filtered_steps) = StepsWithAvailableEvent
        /\ \A j, k \in 1..Len(filtered_steps) :
                j < k => filtered_steps[j] < filtered_steps[k]
        /\ \A j \in 1..Len(filtered_steps) : FilteredSteps[j].rank = j
        /\ (\A i \in 1..Len(pre_steps) : DeclaredEvents(pre_steps[i]) \subseteq available)
                => filtered_steps = [i \in 1..Len(pre_steps) |-> i]

\* a step was dropped ahead of two survivors, which were renumbered
C5_Witness ==
    /\ fphase = "called"
    /\ Len(pre_steps) = 3
    /\ filtered_steps = <<2, 3>>
    /\ pre_steps[2].rank # 1
    /\ FilteredSteps[1].rank = 1

\* C6 (as claimed): the survivors' new ranks ascend with their original ranks,
\* whatever the array order.
C6_RankAuthoritative ==
    fphase = "called" =>
        \A j, k \in 1..Len(filtered_steps) :
            pre_steps[filtered_steps[j]].rank < pre_steps[filtered_steps[k]].rank
                => FilteredSteps[j].rank < FilteredSteps[k].rank

\* C7 (as claimed): a call leaves every step of the caller's config with the
\* rank and the loaded_events it had, and the ranks of the config unique.
C7_InputNotMutated ==
    fphase = "called" =>
        /\ \A i \in 1..Len(steps) :
                /\ steps[i].rank = pre_steps[i].rank
                /\ steps[i].loaded_events = pre_steps[i].loaded_events
        /\ \A i, j \in 1..Len(steps) : steps[i].rank = steps[j].rank => i = j

\* C8 (as claimed): the percentile statement orders every step of the filtered
\* list by the rank the funnel statement was compiled with, and labels it
\* '<rank> - <screen_name>'.
C8_PercentileOrderIsFunnelRank ==
    fphase = "called" =>
        \A j \in 1..Len(filtered_steps) :
            /\ PercentileStepOrder(FilteredSteps[j].screen_name) = FilteredSteps[j].rank
            /\ PercentileOrderedScreenName(FilteredSteps[j].screen_name)
                 = ToString(FilteredSteps[j].rank) \o " - " \o FilteredSteps[j].screen_name

-----------------------------------------------------------------------------
(* Claims on the funnel statement (SpecFunnel) *)

\* the rows funnel_completed selected from the funnel_clean row r
DerivedFrom(r) == {o \in funnel_completed : o.src = r.rid}

\* the highest step_stage among the funnel_clean rows of r's actor and session
MaxReachedStep(r) ==
    Max({x.step_stage : x \in {x \in funnel_clean : SamePartition(x, r)}})

OutputRowsAt(r, s) ==
    {o \in standard_funnel : SamePartition(o, r) /\ o.step_stage = s}

\* C1 (as claimed): for an actor and session whose highest funnel_clean
\* step_stage is S, the created table holds exactly one row for each step
\* 1..S and none above S.
C1_BackfillUniqueness ==
    qphase = "executed" =>
        \A r \in funnel_clean :
            /\ \A s \in 1..MaxReachedStep(r) : Cardinality(OutputRowsAt(r, s)) = 1
            /\ \A o \in standard_funnel :
                   SamePartition(o, r) => o.step_stage \in 1..MaxReachedStep(r)

\* C2: every funnel_clean row with step_stage S has exactly S rows of
\* funnel_completed selected from it, one for each step 1..S and none above,
\* and funnel_completed holds no other rows.
C2_BackfillCoverage ==
    qphase = "executed" =>
        /\ \A r \in funnel_clean :
              /\ Cardinality(DerivedFrom(r)) = r.step_stage
              /\ {o.step_stage : o \in DerivedFrom(r)} = 1..r.step_stage
        /\ \A o \in funnel_completed : \E r \in funnel_clean : o.src = r.rid

\* a row observed at step 3 of a three-step funnel, backfilled to three rows
C2_Witness ==
    /\ qphase = "executed"
    /\ Len(sql.completion) = 3
    /\ \E r \in funnel_clean :
          r.step_stage = 3 /\ Cardinality(DerivedFrom(r)) = 3

\* C3: the funnel_completed row generated for the step a funnel_clean row
\* reached exists and carries that row's screen_name, screen_entry_time,
\* previous_screen_name, screen_success_time, is_conversion_session and
\* time_to_convert.
C3_ReachedStepPassThrough ==
    qphase = "executed" =>
        \A r \in funnel_clean :
            /\ \E o \in DerivedFrom(r) : o.step_stage = r.step_stage
            /\ \A o \in DerivedFrom(r) :
                  o.step_stage = r.step_stage =>
                      /\ o.screen_name = r.screen_name
                      /\ o.screen_entry_time = r.screen_entry_time
                      /\ o.previous_screen_name = r.previous_screen_name
                      /\ o.screen_success_time = r.screen_success_time
                      /\ o.is_conversion_session = r.is_conversion_session
                      /\ o.time_to_convert = r.time_to_convert

\* a row at step 2 or above with a row before it and a row after it in its
\* session, so that every passed-through field holds an observed value
C3_Witness ==
    /\ qphase = "executed"
    /\ \E r \in funnel_clean :
          /\ r.step_stage >= 2
          /\ r.previous_screen_name # Null
          /\ r.screen_success_time # Null
          /\ r.time_to_convert # Null
          /\ r.is_conversion_session = 1
          /\ \E o \in DerivedFrom(r) : o.step_stage = r.step_stage

\* C4 (as claimed): in a three-step funnel a row observed at step 3 at time T
\* gives a step-1 row at T - 2 minutes and a step-2 row at T - 1 minute.
C4_ScenarioTiming ==
    (qphase = "executed" /\ Len(sql.completion) = 3) =>
        \A r \in funnel_clean :
            r.step_stage = 3 =>
                \A o \in DerivedFrom(r) :
                    /\ o.step_stage = 1 => o.screen_entry_time = r.screen_entry_time - 2
                    /\ o.step_stage = 2 => o.screen_entry_time = r.screen_entry_time - 1

-----------------------------------------------------------------------------
(* Claims on execute_analysis (Spec) *)

Submitted(stmt) == {i \in 1..Len(engine) : engine[i].stmt = stmt}

FunnelAcknowledged ==
    \E j \in Submitted("funnel") : engine[j].status = "succeeded"

\* C9: the percentile statement is compiled and submitted only once the
\* funnel statement has been submitted and has completed successfully, never
\* while another statement is running and never after a failed funnel
\* statement.
C9_SequentialExecution ==
    /\ \A i \in Submitted("percentiles") :
          \E j \in Submitted("funnel") : j < i /\ engine[j].status = "succeeded"
    /\ percentiles_sql # Null => FunnelAcknowledged
    /\ Cardinality({i \in 1..Len(engine) : engine[i].status = "running"}) <= 1
    /\ (\E j \in Submitted("funnel") : engine[j].status = "failed")
          => Submitted("percentiles") = {} /\ percentiles_sql = Null

\* the percentile statement was submitted, after the funnel statement succeeded
C9_Witness ==
    /\ Submitted("percentiles") # {}
    /\ FunnelAcknowledged

\* C10: once a stage has raised, no later stage is started, the run does not
\* return True, and it ends by returning False.
C10_FailureHalts ==
    /\ result \in {"none", "True", "False"}
    /\ failed # Null =>
          /\ pc \in {"except", "done"}
          /\ stages[Len(stages)] = TheValue(failed)
          /\ result # "True"
          /\ pc = "done" => result = "False"

\* the funnel statement failed in the engine and the run returned False
C10_Witness ==
    /\ pc = "done"
    /\ failed = Some("funnel_execution")
    /\ engine[Len(engine)] = [stmt |-> "funnel", status |-> "failed"]
    /\ result = "False"

\* positions of stages at which the stage st was started
Started(st) == {i \in 1..Len(stages) : stages[i] = st}

\* C11: in a run the availability query, the funnel statement and the
\* percentile statement are each handed to the query engine at most once,
\* whether they succeed or fail.
C11_NoRetries ==
    /\ \A stmt \in {"availability", "funnel", "percentiles"} :
          Cardinality(Submitted(stmt)) <= 1
    /\ \A st \in {"availability", "funnel_execution", "percentile_execution"} :
          Cardinality(Started(st)) <= 1

\* the percentile statement failed in the engine and the run ended with the
\* three statements submitted once each
C11_Witness ==
    /\ pc = "done"
    /\ failed = Some("percentile_execution")
    /\ Len(engine) = 3
    /\ engine[3] = [stmt |-> "percentiles", status |-> "failed"]

\* C12: when validate_config raises, nothing has been submitted to the query
\* engine and no funnel or percentile statement has been generated; when the
\* availability filtering leaves no step, no funnel or percentile statement
\* has been generated or submitted.
C12_AbortBeforeSql ==
    /\ failed = Some("validation") =>
          /\ engine = <<>>
          /\ sql = NoSql
          /\ percentiles_sql = Null
    /\ (fphase = "called" /\ filtered_steps = <<>>) =>
          /\ sql = NoSql
          /\ percentiles_sql = Null
          /\ Submitted("funnel") = {}
          /\ Submitted("percentiles") = {}

\* the filtering left no step: the run ended with the availability query as
\* the only statement submitted
C12_Witness ==
    /\ pc = "done"
    /\ fphase = "called"
    /\ filtered_steps = <<>>
    /\ engine = <<[stmt |-> "availability", status |-> "succeeded"]>>
    /\ result = "False"

\* C13: when no step of the config has a declared event in the availability
\* report, generate_standard_funnel_sql raises its ValueError and no
\* statement is generated.
C13_EmptyFunnel ==
    (fphase = "called" /\ StepsWithAvailableEvent = {}) =>
        /\ failed = Some("funnel_compilation")
        /\ error = Some("No steps with available events found. Check your event names.")
        /\ sql = NoSql

\* the report holds an event, but none a step declares
C13_Witness ==
    /\ fphase = "called"
    /\ available = {"e3"}
    /\ Len(pre_steps) = 2
    /\ failed = Some("funnel_compilation")

\* the funnel statement completed and nothing else of the funnel stage raised
FunnelStageSucceeded == FunnelAcknowledged /\ failed # Some("funnel_execution")

\* C14 (as claimed): with create_percentiles_table false or absent no
\* percentile statement is generated or submitted, and a run whose funnel
\* stage succeeded returns True; with the flag true a run whose funnel stage
\* succeeded hands the percentile statement to the engine exactly once.
C14_PercentileBranch ==
    /\ create_percentiles_table # Some(TRUE) =>
          /\ percentiles_sql = Null
          /\ Submitted("percentiles") = {}
          /\ (pc = "done" /\ FunnelStageSucceeded) => result = "True"
    /\ (create_percentiles_table = Some(TRUE) /\ pc = "done" /\ FunnelStageSucceeded) =>
          Cardinality(Started("percentile_execution")) = 1

\* positions of the required fields the config lacks
MissingFields == {i \in 1..Len(RequiredFields) : RequiredFields[i] \notin config_keys}

\* C17: validate_config succeeds exactly when every required field is present
\* and steps is not empty; otherwise its error names the first missing field
\* of the fixed order, or says that steps must be non-empty; when it has run
\* nothing has been submitted and the config is as it was.
C17_ValidatorContract ==
    stages # <<>> =>
        /\ failed # Some("validation") <=> (MissingFields = {} /\ steps # <<>>)
        /\ failed = Some("validation") =>
              \/ \E i \in MissingFields :
                    /\ \A j \in MissingFields : i <= j
                    /\ error = Some("Missing required field: " \o RequiredFields[i])
              \/ /\ MissingFields = {}
                 /\ error = Some("Steps must be a non-empty array")
        /\ stages = <<"validation">> => (engine = <<>> /\ steps = pre_steps)

\* two required fields are missing and the error names the first of them
C17_Witness ==
    /\ pc = "done"
    /\ MissingFields = {3, 11}
    /\ error = Some("Missing required field: source_dataset")
    /\ result = "False"

\* an event name is declared by two steps of the list st
Overlapping(st) ==
    \E i, j \in 1..Len(st) :
        i < j /\ Range(st[i].loaded_events) \cap Range(st[j].loaded_events) # {}

\* C18 (as claimed): a config that declares an event in two steps fails
\* validation, and no funnel statement is compiled or submitted for it.
C18_OverlapRejected ==
    Overlapping(pre_steps) =>
        /\ sql = NoSql
        /\ Submitted("funnel") = {}
        /\ stages # <<>> => failed = Some("validation")

\* C19 (as claimed): a config with time_period_days below 1 fails validation:
\* nothing is submitted to the query engine and the run returns False.
C19_ZeroLookbackRejected ==
    (time_period_days # Null /\ TheValue(time_period_days) < 1) =>
        /\ engine = <<>>
        /\ stages # <<>> => failed = Some("validation")
        /\ pc = "done" => result = "False"

-----------------------------------------------------------------------------
(* Claims on repeated compilation (SpecCompile) *)

\* C15: a second call of generate_standard_funnel_sql on the same config
\* object, with the same availability report, returns the statement the
\* first call returned, or fails as the first call did.
C15_CompilationIdempotent ==
    [][fphase' = "recalled" => (sql' = sql /\ qphase' = qphase)]_vars

\* the first call dropped a step and an event and renumbered the survivors,
\* and the second call has returned
C15_Witness ==
    /\ fphase = "recalled"
    /\ qphase = "generated"
    /\ Len(steps) = 3
    /\ filtered_steps = <<2, 3>>
    /\ \E i \in 1..Len(steps) : Len(steps[i].loaded_events) = 2
    /\ \E i \in 2..3 : Range(steps[i].loaded_events) \subseteq available

-----------------------------------------------------------------------------
(* Further claims on the funnel statement (SpecFunnel) *)

\* C16: every row of the created table, and every row of funnel_clean, has a
\* step_stage in 1..K, K being the number of steps the filtering kept.
C16_OutputStepRange ==
    qphase = "executed" =>
        /\ \A o \in standard_funnel : o.step_stage \in 1..Len(filtered_steps)
        /\ \A r \in funnel_clean : r.step_stage \in 1..Len(filtered_steps)

\* a step was dropped, a source row has an event no step declares, and the
\* table holds a row at the last step kept
C16_Witness ==
    /\ qphase = "executed"
    /\ Len(filtered_steps) < Len(steps)
    /\ \E i \in 1..Len(table) : LabelStepStage(sql, table[i].event) = Null
    /\ \E o \in standard_funnel : o.step_stage = Len(filtered_steps)

-----------------------------------------------------------------------------
(* Claims on the percentile statement (SpecPercentiles) *)

\* the names the statement's step-order mapping knows, in mapping order
MappedScreenNames ==
    IF variant = "standard" THEN DefaultScreenNames ELSE UnifiedScreenNames

\* C20: the percentile output has one row per screen_name group; a name absent
\* from the mapping gets step_order 999 and itself as ordered_screen_name, a
\* mapped name gets its mapped step_order; the rows ascend by step_order, so
\* every unmapped name comes after every mapped one.
C20_PercentileOrdering ==
    percentiles_table # Null =>
        LET rows == TheValue(percentiles_table)
            Mapped(i) == rows[i].screen_name \in Range(MappedScreenNames)
        IN  /\ Len(rows) = Cardinality(aggregated_times)
            /\ {rows[i].screen_name : i \in 1..Len(rows)} = aggregated_times
            /\ \A i \in 1..Len(rows) :
                  IF Mapped(i)
                  THEN rows[i].step_order = PositionIn(MappedScreenNames, rows[i].screen_name)
                  ELSE /\ rows[i].step_order = 999
                       /\ rows[i].ordered_screen_name = rows[i].screen_name
            /\ \A i, j \in 1..Len(rows) :
                  /\ i < j => rows[i].step_order <= rows[j].step_order
                  /\ (Mapped(i) /\ ~Mapped(j)) => i < j

\* two mapped and two unmapped names, the mapped ones given out of order
C20_Witness ==
    /\ percentiles_table # Null
    /\ variant = "unified"
    /\ aggregated_times = {"A", "B", "Loan Account Created", "Vendor BRE"}
    /\ TheValue(percentiles_table)[1].screen_name = "Vendor BRE"
    /\ TheValue(percentiles_table)[3].screen_name = "B"

-----------------------------------------------------------------------------
(* Claims on the generated statement's schema and scan (SpecFunnel, SpecScan) *)

\* the fixed column set of the output schema
CompiledFunnelRowColumns ==
    << "actor_id", "current_tier", "affluence_v11_flag", "gender", "income_range",
       "session_id", "app_version", "operating_system", "entry_point", "screen_name",
       "screen_entry_time", "step", "step_stage", "previous_screen_name",
       "screen_success_time", "is_conversion_session", "time_to_convert",
       "table_created_at" >>

\* C21 (as claimed): the statement either analyzer generates selects exactly
\* the fixed columns of the output schema, in order, and no others.
C21_VariantAgnosticSchema ==
    qphase \in {"generated", "executed"} => sql.columns = CompiledFunnelRowColumns

\* C26 (as claimed): every source row that reaches funnel_base satisfies the
\* predicates of config['filters'] and has an event some surviving step
\* declares, and no row that fails a predicate contributes to the output, in
\* either variant.
C26_LabelingScanPredicate ==
    qphase = "executed" =>
        /\ \A b \in FunnelBase(sql, variant, table) :
              /\ table[b.rid].passes
              /\ b.event \in UNION {Range(FilteredSteps[j].loaded_events) :
                                       j \in 1..Len(filtered_steps)}
        /\ \A o \in funnel_completed : table[o.src].passes

\* C27: funnel_clean holds exactly one row for every (actor_id, session_id,
\* screen_name, step_stage) among the labeled rows, the one with the latest
\* screen_entry_time of the tuple, and no other row.
C27_CanonicalDedup ==
    qphase = "executed" =>
        LET lab == Labelled(FunnelBase(sql, variant, table))
            Visits(b) == {x \in lab : SameGroup(x, b)}
            Kept(b) == {r \in funnel_clean :
                          /\ SamePartition(r, b)
                          /\ r.screen_name = b.screen_name
                          /\ Some(r.step_stage) = b.step_stage}
        IN  /\ \A b \in lab :
                  /\ Cardinality(Kept(b)) = 1
                  /\ \A r \in Kept(b) :
                        r.screen_entry_time =
                            Max({x.screen_entry_time : x \in Visits(b)})
            /\ \A r \in funnel_clean : \E b \in lab : b.rid = r.rid

\* a tuple visited at two different times, kept once with the later time
C27_Witness ==
    /\ qphase = "executed"
    /\ \E i, j \in 1..Len(table) :
          /\ table[i].actor = table[j].actor
          /\ table[i].session = table[j].session
          /\ table[i].event = table[j].event
          /\ table[i].time < table[j].time
          /\ \E r \in funnel_clean : r.rid = j
          /\ ~ \E r \in funnel_clean : r.rid = i

-----------------------------------------------------------------------------
(* Claims on the synthesized rows of funnel_completed (SpecFunnel) *)

\* the funnel_clean row a funnel_completed row was selected from
Source(o) == CHOOSE r \in funnel_clean : r.rid = o.src

\* the rows of funnel_completed that are not the pass-through of their source
Synthesized == {o \in funnel_completed : o.step_stage # Source(o).step_stage}

\* C22: for a funnel_clean row at step S with entry time T and every s with
\* 1 <= s < S, the row synthesized for step s has screen_entry_time
\* T - (s - 1) minutes; no other row is synthesized.
C22_SyntheticEntryTime ==
    qphase = "executed" =>
        /\ \A r \in funnel_clean : \A s \in 1..(r.step_stage - 1) :
              \E o \in DerivedFrom(r) :
                  /\ o.step_stage = s
                  /\ o.screen_entry_time = r.screen_entry_time - (s - 1)
        /\ \A o \in Synthesized :
              /\ o.step_stage < Source(o).step_stage
              /\ o.screen_entry_time = Source(o).screen_entry_time - (o.step_stage - 1)

\* a row synthesized for step 2 from a row observed at step 3
C22_Witness ==
    /\ qphase = "executed"
    /\ \E o \in Synthesized :
          /\ o.step_stage = 2
          /\ Source(o).step_stage = 3
          /\ o.screen_entry_time = Source(o).screen_entry_time - 1

\* C23 (as claimed): among the rows derived from one funnel_clean row, the
\* row of a lower step has a strictly earlier screen_entry_time.
C23_BackfillPreservesStepOrder ==
    qphase = "executed" =>
        \A r \in funnel_clean : \A o1, o2 \in DerivedFrom(r) :
            o1.step_stage < o2.step_stage => o1.screen_entry_time < o2.screen_entry_time

\* C24: a synthesized row derived from a funnel_clean row with entry time T
\* has screen_success_time T + 1 minute, is_conversion_session 1 and
\* time_to_convert 60, unless its step is the last of the funnel, where
\* screen_success_time and time_to_convert are null.
C24_SyntheticConversionFields ==
    qphase = "executed" =>
        \A o \in Synthesized :
            IF o.step_stage = Len(sql.completion)
            THEN o.screen_success_time = Null /\ o.time_to_convert = Null
            ELSE /\ o.screen_success_time = Some(Source(o).screen_entry_time + 1)
                 /\ o.is_conversion_session = 1
                 /\ o.time_to_convert = Some(60)

\* a row synthesized for step 2, whose own entry time is not its source's
C24_Witness ==
    /\ qphase = "executed"
    /\ \E o \in Synthesized :
          /\ o.step_stage = 2
          /\ o.screen_entry_time # Source(o).screen_entry_time
          /\ o.time_to_convert = Some(60)

\* C25: a synthesized row at step s has as previous_screen_name the
\* screen_name of the step of rank s - 1 in the filtered list, null at s = 1.
C25_SyntheticPreviousScreen ==
    qphase = "executed" =>
        \A o \in Synthesized :
            IF o.step_stage = 1
            THEN o.previous_screen_name = Null
            ELSE \E j \in 1..Len(filtered_steps) :
                    /\ FilteredSteps[j].rank = o.step_stage - 1
                    /\ o.previous_screen_name = Some(FilteredSteps[j].screen_name)

\* a step was dropped ahead of the step-2 survivor, and a row was synthesized
\* for step 2
C25_Witness ==
    /\ qphase = "executed"
    /\ Len(steps) = 4
    /\ filtered_steps = <<1, 3, 4>>
    /\ \E o \in Synthesized :
          o.step_stage = 2 /\ o.screen_name = "B" /\ o.previous_screen_name = Some("A")

\* C28: a synthesized row is never at the last step of the funnel, so it has
\* is_conversion_session 1, time_to_convert 60 and a screen_success_time.
C28_LastStepBranchUnreachable ==
    qphase = "executed" =>
        \A o \in Synthesized :
            /\ o.step_stage < Len(filtered_steps)
            /\ o.is_conversion_session = 1
            /\ o.time_to_convert = Some(SyntheticTimeToConvert)
            /\ o.screen_success_time # Null

\* a row synthesized for the step before the last from a row at the last step
C28_Witness ==
    /\ qphase = "executed"
    /\ \E o \in Synthesized :
          /\ o.step_stage = Len(filtered_steps) - 1
          /\ Source(o).step_stage = Len(filtered_steps)
          /\ Source(o).is_conversion_session = 0

-----------------------------------------------------------------------------
(* Claims on ordered_events and calculated_times (SpecOrderedEvents) *)

\* C29: whatever the funnel table holds, calculated_times keeps every row
\* but the last of each actor: the test on the difference removes none.
C29_GuardRemovesNothing ==
    calculated_times # Null =>
        /\ Cardinality(TheValue(calculated_times))
              = Cardinality(standard_funnel)
                  - Cardinality({o.actor_id : o \in standard_funnel})
        /\ \A c \in TheValue(calculated_times) : c.time_to_next_step_seconds >= 0

\* an actor's row at a higher step is dated before its row at a lower step,
\* as after a backfill, and calculated_times holds rows of that actor
C29_Witness ==
    /\ calculated_times # Null
    /\ \E x, y \in standard_funnel :
          /\ x.actor_id = y.actor_id
          /\ x.step_stage < y.step_stage
          /\ x.screen_entry_time > y.screen_entry_time
          /\ \E c \in TheValue(calculated_times) :
                /\ c.src = y.src
                /\ c.next_step_stage = Some(x.step_stage)
                /\ c.time_to_next_step_seconds > 0

-----------------------------------------------------------------------------
(* Claims on repeated filtering (SpecRefilter) *)

\* C30: over calls of check_event_availability on one config object no
\* step's loaded_events gains an event, and a call with the report of the
\* call before it returns the same steps with the same ranks and
\* loaded_events.
C30_RefilterMonotone ==
    [][/\ \A i \in 1..Len(steps) :
             Range(steps'[i].loaded_events) \subseteq Range(steps[i].loaded_events)
       /\ (fphase = "called" /\ available' = available) =>
             /\ filtered_steps' = filtered_steps
             /\ \A j \in 1..Len(filtered_steps) :
                   /\ steps'[filtered_steps[j]].rank = steps[filtered_steps[j]].rank
                   /\ steps'[filtered_steps[j]].loaded_events
                        = steps[filtered_steps[j]].loaded_events]_vars

\* an earlier call took one of a step's two events away; the last call found
\* both in its report and returned the step with the one event left
C30_Witness ==
    /\ fphase = "called"
    /\ \E i \in Range(filtered_steps) :
          /\ pre_steps[i].original_events # Null
          /\ Len(TheValue(pre_steps[i].original_events)) = 2
          /\ Range(TheValue(pre_steps[i].original_events)) \subseteq available
          /\ Len(steps[i].loaded_events) = 1

====
